---- MODULE Spec2Model ----
(***************************************************************************)
(* A model of the two command-line scripts of pynq-z1-bsp:                 *)
(*   scripts/hexadecimal_array_generator.py  (the generator)               *)
(*   scripts/list-examples.py                (the lister)                  *)
(*                                                                         *)
(* Python integers are unbounded.  A value v is held as a record           *)
(* [hi, lo] with v = hi * 16^4 + lo and 0 <= lo < 16^4, so that values     *)
(* around and above 0xFFFFFFFF, and negative ones, are represented         *)
(* exactly.  A printed line is a sequence of one-character strings         *)
(* (fixed message texts are one token).                                    *)
(***************************************************************************)
EXTENDS Integers, Sequences, FiniteSets, TLC

VARIABLES
    arguments,    \* generator: ProgramArguments(start, final, step)
    array_range,  \* generator: the range object built from the arguments
    it,           \* generator: index of the range iterator of the for loop
    emitted,      \* generator: the values the loop variable i has taken
    fs,           \* lister: what the filesystem holds at cwd/examples
    index,        \* lister: enumerate()'s position in iterdir()
    pc,           \* position of the running script
    out,          \* standard output, a sequence of lines
    status        \* {} while running, {n} once the process ended with status n

vars == <<arguments, array_range, it, emitted, fs, index, pc, out, status>>

----------------------------------------------------------------------------
(* Bounds of the model *)

\* start and final are drawn within MaxOff of one of the Bases
MaxOff == 2
\* step is drawn from -MaxStep .. MaxStep
MaxStep == 3
\* the examples directory holds at most MaxEntries entries
MaxEntries == 2

----------------------------------------------------------------------------
(* Python integers as two limbs *)

Limb == 16 * 16 * 16 * 16

Norm(h, l) == [hi |-> h + (l \div Limb), lo |-> l % Limb]

PyInt(n) == Norm(0, n)

\* v + n for a small integer n
Add(v, n) == Norm(v.hi, v.lo + n)

Negate(v) == Norm(0 - v.hi, 0 - v.lo)

Less(a, b) == a.hi < b.hi \/ (a.hi = b.hi /\ a.lo < b.lo)

LessEq(a, b) == a = b \/ Less(a, b)

IsNegative(v) == v.hi < 0

\* a - b as a plain integer (the model keeps a and b close to each other)
Diff(a, b) == (a.hi - b.hi) * Limb + (a.lo - b.lo)

Min(a, b) == IF a < b THEN a ELSE b

----------------------------------------------------------------------------
(* The generator: formatting *)

HexChars == <<"0", "1", "2", "3", "4", "5", "6", "7",
              "8", "9", "A", "B", "C", "D", "E", "F">>

DecChars == <<"0", "1", "2", "3", "4", "5", "6", "7", "8", "9">>

\* the field width of the format specification 08X
Width == 8

RECURSIVE HexMag(_)
\* uppercase hexadecimal digits of n >= 0, no padding
HexMag(n) ==
    IF n < 16 THEN <<HexChars[n + 1]>>
    ELSE HexMag(n \div 16) \o <<HexChars[(n % 16) + 1]>>

RECURSIVE Zeros(_)
Zeros(n) == IF n <= 0 THEN <<>> ELSE <<"0">> \o Zeros(n - 1)

\* hexadecimal digits of a magnitude m >= 0 held in two limbs
HexOfMagnitude(m) ==
    IF m.hi = 0 THEN HexMag(m.lo)
    ELSE LET low == HexMag(m.lo)
         IN  HexMag(m.hi) \o Zeros(4 - Len(low)) \o low

\* f"{i:X}": the format without its width and zero fill
Format08X_NoZeroPad(i) ==
    LET sign == IF IsNegative(i) THEN <<"-">> ELSE <<>>
        digits == HexOfMagnitude(IF IsNegative(i) THEN Negate(i) ELSE i)
    IN  sign \o digits

\* f"{i:08X}": sign, then zeros up to the width, then the digits
Format08X(i) ==
    LET sign == IF IsNegative(i) THEN <<"-">> ELSE <<>>
        digits == HexOfMagnitude(IF IsNegative(i) THEN Negate(i) ELSE i)
    IN  sign \o Zeros(Width - Len(sign) - Len(digits)) \o digits

\* Python's s[a:b] for 0 <= a <= b
Slice(s, a, b) == SubSeq(s, a + 1, Min(b, Len(s)))

\* the line printed for the loop variable i
HexLine(i) ==
    LET value == Format08X(i)
        left == Slice(value, 0, 4)
        right == Slice(value, 4, 8)
        joined == left \o <<"_">> \o right
    IN  <<"0", "x">> \o joined \o <<",">>

RECURSIVE DecStr(_)
\* f"{n}" for n >= 0
DecStr(n) ==
    IF n < 10 THEN <<DecChars[n + 1]>>
    ELSE DecStr(n \div 10) \o <<DecChars[(n % 10) + 1]>>

----------------------------------------------------------------------------
(* The generator: range(start, stop, step) *)

\* a range length that treats every negative step as an empty range
RangeLength_PositiveOnly(start, stop, step) ==
    IF step > 0 /\ Less(start, stop)
    THEN ((Diff(stop, start) - 1) \div step) + 1
    ELSE 0

\* the length of range(start, stop, step), step # 0
RangeLength(start, stop, step) ==
    IF step > 0
    THEN IF Less(start, stop)
         THEN ((Diff(stop, start) - 1) \div step) + 1
         ELSE 0
    ELSE IF Less(stop, start)
         THEN ((Diff(start, stop) - 1) \div (0 - step)) + 1
         ELSE 0

\* a stop of final alone, which leaves final itself out
RangeStop_Final(a) == a.final

\* the second argument of the range: final + step
RangeStop(a) == Add(a.final, a.step)

\* a range() that takes a zero step for an empty range instead of raising
PyRange_ZeroStepEmpty(a) ==
    IF a.step = 0
    THEN [raised |-> FALSE, start |-> a.start, step |-> a.step, len |-> 0]
    ELSE [raised |-> FALSE, start |-> a.start, step |-> a.step,
          len |-> RangeLength(a.start, RangeStop(a), a.step)]

\* range(a.start, a.final + a.step, a.step): a zero step raises ValueError,
\* any other step gives the range object, which knows its length
PyRange(a) ==
    IF a.step = 0
    THEN [raised |-> TRUE, start |-> a.start, step |-> a.step, len |-> 0]
    ELSE [raised |-> FALSE, start |-> a.start, step |-> a.step,
          len |-> RangeLength(a.start, RangeStop(a), a.step)]

\* range[k], 0 <= k < len
RangeItem(r, k) == Add(r.start, k * r.step)

NoRange == [raised |-> FALSE, start |-> PyInt(0), step |-> 1, len |-> 0]

----------------------------------------------------------------------------
(* The generator: the run *)

\* 0x0, 0x10000 and 0x100000000
Bases == {Norm(0, 0), Norm(1, 0), Norm(Limb, 0)}

Offsets == (0 - MaxOff) .. MaxOff

Steps == (0 - MaxStep) .. MaxStep

NoArguments == [start |-> PyInt(0), final |-> PyInt(0), step |-> 1]

NoFs == [exists |-> FALSE, is_dir |-> FALSE, entries |-> <<>>]

\* the two worked invocations: 0 10 16 and F F 1
ExampleSixteen == [start |-> PyInt(0), final |-> PyInt(16), step |-> 16]

ExampleSingle == [start |-> PyInt(15), final |-> PyInt(15), step |-> 1]

\* the arguments of an invocation
ArgumentSets ==
    {[start |-> Add(b, o1), final |-> Add(b, o2), step |-> s] :
        b \in Bases, o1 \in Offsets, o2 \in Offsets, s \in Steps}
    \cup {ExampleSixteen, ExampleSingle}

\* after ProgramArguments.get()
Init ==
    /\ arguments \in ArgumentSets
    /\ array_range = NoRange
    /\ it = 0
    /\ emitted = <<>>
    /\ fs = NoFs
    /\ index = 0
    /\ pc = "range"
    /\ out = <<>>
    /\ status = {}

\* array_range = range(start, final + step, step)
BuildRange ==
    /\ pc = "range"
    /\ ~PyRange(arguments).raised
    /\ array_range' = PyRange(arguments)
    /\ it' = 0
    /\ pc' = "loop"
    /\ UNCHANGED <<arguments, emitted, fs, index, out, status>>

\* range() raises ValueError; the uncaught exception ends the process with
\* status 1 and a traceback on standard error
RangeValueError ==
    /\ pc = "range"
    /\ PyRange(arguments).raised
    /\ pc' = "raised"
    /\ status' = {1}
    /\ UNCHANGED <<arguments, array_range, it, emitted, fs, index, out>>

\* one pass of the for loop
LoopBody ==
    /\ pc = "loop"
    /\ it < array_range.len
    /\ LET i == RangeItem(array_range, it)
       IN  /\ out' = Append(out, HexLine(i))
           /\ emitted' = Append(emitted, i)
    /\ it' = it + 1
    /\ UNCHANGED <<arguments, array_range, fs, index, pc, status>>

\* the iterator is exhausted: print(len(array_range)) and end
PrintCount ==
    /\ pc = "loop"
    /\ it >= array_range.len
    /\ out' = Append(out, DecStr(array_range.len))
    /\ pc' = "done"
    /\ status' = {0}
    /\ UNCHANGED <<arguments, array_range, it, emitted, fs, index>>

Next == BuildRange \/ RangeValueError \/ LoopBody \/ PrintCount

Spec == Init /\ [][Next]_vars

\* the interpreter runs the script to its end
FairSpec == Spec /\ WF_vars(Next)

----------------------------------------------------------------------------
(* The lister *)

\* path_examples = Path.cwd() / Path("examples/"), printed as one token
PathExamples == "<cwd>/examples"

MsgNotExist == <<"Path to examples does not exist.">>

MsgNotDir == <<"Path to examples is not a directory.">>

PathLine == <<" - ", PathExamples>>

\* str.rfind(".") : the 0-based position of the last dot, -1 without one
RFindDot(name) ==
    LET dots == {k \in 1 .. Len(name) : name[k] = "."}
    IN  IF dots = {} THEN 0 - 1
        ELSE (CHOOSE k \in dots : \A j \in dots : j <= k) - 1

\* PurePath.stem: the final component without its suffix
Stem(name) ==
    LET i == RFindDot(name)
    IN  IF 0 < i /\ i < Len(name) - 1 THEN SubSeq(name, 1, i) ELSE name

\* f"{index} {path.stem}": the index without its + 1
EntryLine_ZeroBased(idx, path) == DecStr(idx) \o <<" ">> \o Stem(path.name)

\* f"{index + 1} {path.stem}"
EntryLine(idx, path) == DecStr(idx + 1) \o <<" ">> \o Stem(path.name)

\* the names an entry of examples/ may carry: a, b, a.b, .a, a.b.c, .a.b
\* (names ending in a dot or starting with two dots are left out: pathlib
\* versions disagree on their stem)
EntryNames ==
    {<<"a">>, <<"b">>, <<"a", ".", "b">>, <<".", "a">>,
     <<"a", ".", "b", ".", "c">>, <<".", "a", ".", "b">>}

Entries == [name : EntryNames, dir : BOOLEAN]

\* what iterdir() may yield: up to MaxEntries entries with distinct names,
\* in any order
Listings ==
    {l \in UNION {[1 .. n -> Entries] : n \in 0 .. MaxEntries} :
        \A j, k \in 1 .. Len(l) : j # k => l[j].name # l[k].name}

\* cwd/examples is missing, is something else than a directory, or is a
\* directory with a listing
FileSystems ==
    {[exists |-> FALSE, is_dir |-> FALSE, entries |-> <<>>],
     [exists |-> TRUE, is_dir |-> FALSE, entries |-> <<>>]}
    \cup {[exists |-> TRUE, is_dir |-> TRUE, entries |-> l] : l \in Listings}

ListerInit ==
    /\ fs \in FileSystems
    /\ arguments = NoArguments
    /\ array_range = NoRange
    /\ it = 0
    /\ emitted = <<>>
    /\ index = 0
    /\ pc = "exists"
    /\ out = <<>>
    /\ status = {}

\* CheckExists with exit(1) left out: the diagnostic is printed and the
\* script goes on to the directory check
CheckExists_NoExit ==
    /\ pc = "exists"
    /\ IF ~fs.exists
       THEN out' = out \o <<MsgNotExist, PathLine>>
       ELSE out' = out
    /\ pc' = "is_dir"
    /\ UNCHANGED <<arguments, array_range, it, emitted, fs, index, status>>

\* if not path_examples.exists(): two lines and exit(1)
CheckExists ==
    /\ pc = "exists"
    /\ IF ~fs.exists
       THEN /\ out' = out \o <<MsgNotExist, PathLine>>
            /\ pc' = "exit"
            /\ status' = {1}
       ELSE /\ pc' = "is_dir"
            /\ UNCHANGED <<out, status>>
    /\ UNCHANGED <<arguments, array_range, it, emitted, fs, index>>

\* if not path_examples.is_dir(): two lines and exit(1)
CheckIsDir ==
    /\ pc = "is_dir"
    /\ IF ~fs.is_dir
       THEN /\ out' = out \o <<MsgNotDir, PathLine>>
            /\ pc' = "exit"
            /\ status' = {1}
       ELSE /\ pc' = "iterdir"
            /\ UNCHANGED <<out, status>>
    /\ UNCHANGED <<arguments, array_range, it, emitted, fs, index>>

\* one pass of the loop over enumerate(path_examples.iterdir())
PrintEntry ==
    /\ pc = "iterdir"
    /\ index < Len(fs.entries)
    /\ out' = Append(out, EntryLine(index, fs.entries[index + 1]))
    /\ index' = index + 1
    /\ UNCHANGED <<arguments, array_range, it, emitted, fs, pc, status>>

\* the listing is exhausted: the script ends, status 0
Finish ==
    /\ pc = "iterdir"
    /\ index >= Len(fs.entries)
    /\ pc' = "finished"
    /\ status' = {0}
    /\ UNCHANGED <<arguments, array_range, it, emitted, fs, index, out>>

ListerNext == CheckExists \/ CheckIsDir \/ PrintEntry \/ Finish

ListerSpec == ListerInit /\ [][ListerNext]_vars

----------------------------------------------------------------------------
(* Reading the output back *)

HexCharSet == {HexChars[k] : k \in 1 .. 16}

DecCharSet == {DecChars[k] : k \in 1 .. 10}

\* 0x[0-9A-F]{4}_[0-9A-F]{4},
MatchesPattern(line) ==
    /\ Len(line) = 12
    /\ line[1] = "0"
    /\ line[2] = "x"
    /\ \A k \in (3 .. 6) \cup (8 .. 11) : line[k] \in HexCharSet
    /\ line[7] = "_"
    /\ line[12] = ","

RECURSIVE HexVal(_)
\* the number a sequence of hexadecimal digits denotes
HexVal(digits) ==
    IF digits = <<>> THEN 0
    ELSE 16 * HexVal(SubSeq(digits, 1, Len(digits) - 1))
         + ((CHOOSE d \in 1 .. 16 : HexChars[d] = digits[Len(digits)]) - 1)

RECURSIVE DecVal(_)
\* the number a sequence of decimal digits denotes
DecVal(digits) ==
    IF digits = <<>> THEN 0
    ELSE 10 * DecVal(SubSeq(digits, 1, Len(digits) - 1))
         + ((CHOOSE d \in 1 .. 10 : DecChars[d] = digits[Len(digits)]) - 1)

IsDecimal(line) == Len(line) > 0 /\ \A k \in 1 .. Len(line) : line[k] \in DecCharSet

\* HIGH followed by LOW of a line 0x<HIGH>_<LOW>, read as a base-16 number
LineValue(line) ==
    [hi |-> HexVal(SubSeq(line, 3, 6)), lo |-> HexVal(SubSeq(line, 8, 11))]

\* 0 <= v <= 0xFFFFFFFF
InU32(v) == v.hi >= 0 /\ v.hi < Limb

\* the position of the first blank of a lister line, 0 without one
FirstBlank(line) ==
    LET blanks == {k \in 1 .. Len(line) : line[k] = " "}
    IN  IF blanks = {} THEN 0 ELSE CHOOSE k \in blanks : \A j \in blanks : k <= j

LineIndexText(line) == SubSeq(line, 1, FirstBlank(line) - 1)

LineName(line) == SubSeq(line, FirstBlank(line) + 1, Len(line))

\* the generator ended normally: value lines, then the count line
GenDone == pc = "done"

ValueLineCount == Len(out) - 1

CountLine == out[Len(out)]

PositiveUpward == arguments.step > 0 /\ LessEq(arguments.start, arguments.final)

----------------------------------------------------------------------------
(* Claims about the generator *)

\* C1: for start <= final and step > 0, the number of value lines before the
\* count line equals the printed count, and that number equals
\* floor((final - start) / step) + 1.
C1_CountIsFloorPlusOne ==
    (GenDone /\ PositiveUpward) =>
        /\ IsDecimal(CountLine)
        /\ ValueLineCount = DecVal(CountLine)
        /\ ValueLineCount
             = (Diff(arguments.final, arguments.start) \div arguments.step) + 1

\* C2: for start <= final and step > 0, the emitted values are exactly the
\* values start + k*step (k >= 0) inside [start, final], in increasing order;
\* no emitted value is greater than final.
C2_ExactlyInclusiveRange ==
    (GenDone /\ PositiveUpward) =>
        LET a == arguments
            inside == {k \in 0 .. Diff(a.final, a.start) :
                          LessEq(Add(a.start, k * a.step), a.final)}
        IN  /\ Len(emitted) = Cardinality(inside)
            /\ \A k \in 1 .. Len(emitted) :
                   /\ emitted[k] = Add(a.start, (k - 1) * a.step)
                   /\ LessEq(emitted[k], a.final)

\* C3: every emitted value line, for every start, final and non-zero step
\* (negative values and values above 0xFFFFFFFF included), matches
\* 0x[0-9A-F]{4}_[0-9A-F]{4},
C3_EveryLineMatches ==
    \A k \in 1 .. Len(emitted) : MatchesPattern(out[k])

\* C4 as stated: with step = 0 the run does not terminate, it goes on
\* emitting value lines and never reaches the count line.
C4_ZeroStepNeverEnds ==
    arguments.step = 0 => (status = {} /\ pc \notin {"done", "raised"})

\* C4 as amended: with step = 0 the run ends at once with an error (range()
\* rejects a zero step, exit status 1); it emits no value line at all and
\* never reaches the count line.
C4_ZeroStepRaises ==
    (arguments.step = 0 /\ pc # "range") =>
        /\ pc = "raised"
        /\ status = {1}
        /\ out = <<>>
        /\ emitted = <<>>

C4_Witness == arguments.step = 0 /\ pc = "raised" /\ arguments.start # arguments.final

CountingDown == arguments.step < 0 /\ Less(arguments.final, arguments.start)

C5_CountdownState ==
    CountingDown =>
        LET a == arguments
        IN  /\ \A k \in 1 .. Len(emitted) :
                   /\ emitted[k] = Add(a.start, (k - 1) * a.step)
                   /\ k > 1 => Less(emitted[k], emitted[k - 1])
            /\ Len(out) >= 1 => (Len(emitted) >= 1 /\ emitted[1] = a.start)
            /\ GenDone =>
                   /\ Len(emitted) >= 1
                   /\ ValueLineCount = Len(emitted)
                   /\ IsDecimal(CountLine)
                   /\ DecVal(CountLine) = Len(emitted)
                   /\ (Diff(a.start, a.final) % (0 - a.step) = 0) =>
                          \E k \in 1 .. Len(emitted) : emitted[k] = a.final

\* C5: for step < 0 and start > final, the run terminates and emits the
\* strictly decreasing sequence start, start + step, ...; it begins at start,
\* includes final when (start - final) is an exact multiple of |step|, and
\* the printed count equals the number of emitted values.
C5_Countdown == [](C5_CountdownState) /\ (CountingDown ~> GenDone)

C5_Witness ==
    /\ CountingDown
    /\ GenDone
    /\ Len(emitted) >= 2
    /\ emitted[Len(emitted)] = arguments.final
    /\ IsNegative(arguments.final)

\* C6: for every emitted value v with 0 <= v <= 0xFFFFFFFF the line is
\* 0x<HIGH>_<LOW>, with HIGH and LOW the upper and lower four characters of
\* the 8-character zero-padded uppercase rendering of v: HIGH followed by LOW
\* read in base 16 gives v back, and distinct values give distinct lines.
C6_HexRoundTrip ==
    /\ \A k \in 1 .. Len(emitted) :
           InU32(emitted[k]) =>
               /\ MatchesPattern(out[k])
               /\ LineValue(out[k]) = emitted[k]
               /\ \A j \in 1 .. Len(emitted) :
                      (InU32(emitted[j]) /\ emitted[j] # emitted[k])
                          => out[j] # out[k]
    /\ (GenDone /\ arguments = ExampleSingle) =>
           out = << <<"0", "x", "0", "0", "0", "0", "_", "0", "0", "0", "F", ",">>,
                    <<"1">> >>

\* 0xFFFFFFFE then 0xFFFFFFFF were emitted
C6_Witness ==
    /\ GenDone
    /\ \E k \in 2 .. Len(emitted) :
           /\ emitted[k] = Norm(Limb - 1, Limb - 1)
           /\ emitted[k - 1] = Norm(Limb - 1, Limb - 2)

\* C10: for step > 0 the emitted values are exactly start + k*step for
\* k = 0, 1, 2, ... while start + k*step < final + step, in increasing order,
\* followed by one last line holding their count; final is the last value
\* when final >= start and (final - start) is an exact multiple of step
\* (0 10 16 gives 0x0000_0000, 0x0000_0010, 2).
C10_StepwiseBelowStop ==
    (GenDone /\ arguments.step > 0) =>
        LET a == arguments
            n == Len(emitted)
            stop == Add(a.final, a.step)
        IN  /\ \A k \in 1 .. n :
                   /\ emitted[k] = Add(a.start, (k - 1) * a.step)
                   /\ Less(emitted[k], stop)
                   /\ k > 1 => Less(emitted[k - 1], emitted[k])
            /\ ~Less(Add(a.start, n * a.step), stop)
            /\ Len(out) = n + 1
            /\ IsDecimal(CountLine)
            /\ DecVal(CountLine) = n
            /\ (LessEq(a.start, a.final)
                  /\ Diff(a.final, a.start) % a.step = 0)
                   => (n >= 1 /\ emitted[n] = a.final)
            /\ a = ExampleSixteen =>
                   out = << <<"0", "x", "0", "0", "0", "0", "_", "0", "0", "0", "0", ",">>,
                            <<"0", "x", "0", "0", "0", "0", "_", "0", "0", "1", "0", ",">>,
                            <<"2">> >>

C10_Witness ==
    /\ GenDone
    /\ arguments = ExampleSixteen
    /\ Len(emitted) = 2

----------------------------------------------------------------------------
(* Claims about the lister *)

ListerEnded == status # {}

\* C7: when the examples path does not exist, or exists but is no directory,
\* the run prints exactly two lines (the message of that failure kind, then
\* the resolved path), exits with status 1 and prints no entry line; the
\* existence check comes first, so only one of the two diagnostics is printed.
C7_DiagnosticAndExit ==
    (pc \in {"exists", "is_dir", "iterdir", "exit", "finished"}
       /\ ~(fs.exists /\ fs.is_dir)) =>
        /\ pc \notin {"iterdir", "finished"}
        /\ ListerEnded =>
               /\ pc = "exit"
               /\ status = {1}
               /\ out = <<IF ~fs.exists THEN MsgNotExist ELSE MsgNotDir, PathLine>>
        /\ ~ListerEnded => out = <<>>

C7_Witness == pc = "exit" /\ fs.exists /\ ~fs.is_dir /\ Len(out) = 2

C9_DirectoriesKeepTheirName ==
    pc \in {"iterdir", "finished"} =>
        \A k \in 1 .. Len(out) :
            LineName(out[k]) =
                IF fs.entries[k].dir THEN fs.entries[k].name
                ELSE Stem(fs.entries[k].name)

====
